---------------------------- MODULE Spec2Model ----------------------------
(***************************************************************************)
(* A model of auto-pr.py, the wizard that prepares a pull request for the  *)
(* browser-compat-data repository: the feature locator, the category,      *)
(* title, description and branch-name helpers, the prompt sequence of      *)
(* get_config, the lint loop of do_lint and the command sequence of do_pr. *)
(*                                                                         *)
(* Text.  A Python str is modelled as a sequence of chunks.  Every         *)
(* character the program inspects on its own ('.', '*', '/', '{', '}',     *)
(* '#', newline and blank) is a chunk by itself wherever the model feeds   *)
(* it to an operation that looks for it; a run of other characters is one  *)
(* chunk (or several, where a table key has to match part of it).          *)
(* Text(s) is the str the chunks spell.                                    *)
(***************************************************************************)
EXTENDS Naturals, Sequences, FiniteSets, TLC

VARIABLES
    pc,       \* position of the run (per specification, see each Init)
    fs,       \* the data tree under the working directory
    arg,      \* arguments of the helper under check (helper specifications)
    ret,      \* result of the helper under check (helper specifications)
    config,   \* the answer set built by get_config
    lint,     \* locals of do_lint
    pr,       \* locals of do_pr
    git,      \* the repository as version control sees it
    log,      \* external commands run so far, in order
    out       \* the last line printed by do_lint or do_pr

vars == <<pc, fs, arg, ret, config, lint, pr, git, log, out>>

(***************************************************************************)
(* str operations                                                          *)
(***************************************************************************)

\* str.startswith
StartsWith(s, p) ==
    /\ Len(p) <= Len(s)
    /\ SubSeq(s, 1, Len(p)) = p

\* str.endswith
EndsWith(s, p) ==
    /\ Len(p) <= Len(s)
    /\ SubSeq(s, Len(s) - Len(p) + 1, Len(s)) = p

\* sub in s
RECURSIVE Contains(_, _)
Contains(s, sub) ==
    IF Len(sub) > Len(s) THEN FALSE
    ELSE IF StartsWith(s, sub) THEN TRUE
    ELSE Contains(Tail(s), sub)

\* str.replace(old, new) for a non-empty old: leftmost occurrences, not overlapping
RECURSIVE Replace(_, _, _)
Replace(s, old, new) ==
    IF s = <<>> THEN <<>>
    ELSE IF StartsWith(s, old) THEN new \o Replace(SubSeq(s, Len(old) + 1, Len(s)), old, new)
    ELSE <<Head(s)>> \o Replace(Tail(s), old, new)

\* str.split(sep) for a one-chunk separator: always at least one part
RECURSIVE SplitFrom(_, _, _, _, _)
SplitFrom(s, sep, i, parts, part) ==
    IF i > Len(s) THEN Append(parts, part)
    ELSE IF s[i] = sep THEN SplitFrom(s, sep, i + 1, Append(parts, part), <<>>)
    ELSE SplitFrom(s, sep, i + 1, parts, Append(part, s[i]))

Split(s, sep) == SplitFrom(s, sep, 1, <<>>, <<>>)

\* sep.join(parts)
RECURSIVE Join(_, _)
Join(parts, sep) ==
    IF parts = <<>> THEN <<>>
    ELSE IF Len(parts) = 1 THEN Head(parts)
    ELSE Head(parts) \o sep \o Join(Tail(parts), sep)

Whitespace == {" ", "\n", "\t"}

\* str.strip()
RECURSIVE LStrip(_)
LStrip(s) ==
    IF s # <<>> /\ Head(s) \in Whitespace THEN LStrip(Tail(s)) ELSE s

RECURSIVE RStrip(_)
RStrip(s) ==
    IF s # <<>> /\ s[Len(s)] \in Whitespace THEN RStrip(SubSeq(s, 1, Len(s) - 1)) ELSE s

Strip(s) == RStrip(LStrip(s))

\* the str a chunk sequence spells
RECURSIVE Text(_)
Text(s) ==
    IF s = <<>> THEN "" ELSE Head(s) \o Text(Tail(s))


(***************************************************************************)
(* The tables of the script                                                *)
(***************************************************************************)

\* the grave accent, which no TLA+ string can hold
Grave == "<grave>"

\* lines 26-27: the version read from the collector's package.json
collector_version == <<"10.12.7">>

\* line 29
mdn_bcd_collector ==
    <<"[mdn-bcd-collector](https://mdn-bcd-collector.gooborg.com) project (v">> \o collector_version \o <<")">>

\* lines 33-86
pr_types ==
    (  "Compat Data Corrections" :>
        [ title |->
            <<"Update ", "{", "browser", "}", " data for ", "{", "title", "}">>,
          description |->
            <<"This PR updates and corrects version values for ", "{", "browser_full", "}", " for the ", "{", "feature_description", "}", ".">>,
          branch_suffix |->
            <<"corrections">> ]
    @@ "Metadata Corrections" :>
        [ title |->
            <<"Update metadata for ", "{", "title", "}">>,
          description |->
            <<"This PR updates and corrects the metadata (spec URLs, descriptions, statuses, etc.) for the ", "{", "feature_description", "}", ".">>,
          branch_suffix |->
            <<"metadata-corrections">> ]
    @@ "New Entry" :>
        [ entire |->
            [ title |->
                <<"Add missing ", "{", "title", "}", " feature">>,
              description |->
                <<"This PR adds the missing ", "{", "feature_description", "}", ".">> ],
          subfeatures |->
            [ title |->
                <<"Add missing features for ", "{", "title", "}">>,
              description |->
                <<"This PR adds the missing features of the ", "{", "feature_description", "}", ".">> ],
          branch_suffix |->
            <<"additions">> ]
    @@ "Real Values Additions" :>
        [ title |->
            <<"Add ", "{", "browser", "}", " versions for ", "{", "title", "}">>,
          description |->
            <<"This PR replaces ", Grave, "true", Grave, "/", Grave, "null", Grave, " values with exact version numbers (or ", Grave, "false", Grave, ") for ", "{", "browser_full", "}", " for the ", "{", "feature_description", "}", ".">>,
          branch_suffix |->
            <<"real-values">> ]
    @@ "Feature Removal" :>
        [ entire |->
            [ title |->
                <<"Remove ", "{", "title", "}", " from BCD">>,
              description |->
                <<"This PR removes the ", "{", "feature_description", "}", " from BCD.">> ],
          subfeatures |->
            [ title |->
                <<"Remove subfeatures of ", "{", "title", "}", " from BCD">>,
              description |->
                <<"This PR removes the unsupported subfeatures of the ", "{", "feature_description", "}", " from BCD.">> ],
          reasons |->
            ( <<"Irrelevant">> :>
                  <<"Per the [data guidelines](https://github.com/mdn/browser-compat-data/blob/main/docs/data-guidelines/index.md#removal-of-irrelevant-features), this feature can be considered irrelevant and may be removed from BCD accordingly. Even if the current data suggests that the feature is supported, lack of support has been confirmed by the [mdn-bcd-collector](https://mdn-bcd-collector.gooborg.com) project (v">> \o collector_version \o <<").">>
              @@ <<"Non-Interface">> :>
                  <<"This feature is a type (ex. a dictionary, enum, mixin, constant or WebIDL typedef) that we have explicitly stated not to document separately from the feature(s) that depend on it, as they are virtually invisible to the end developer.">> ),
          branch_suffix |->
            <<"removal">> ]
    @@ "Flag Removal" :>
        [ by_flag |->
            [ title |->
                <<"Remove irrelevant ", Grave, "{", "flag", "}", Grave, " flag in ", "{", "browser", "}">>,
              description |->
                <<"This PR removes irrelevant flag data for the ", Grave, "{", "flag", "}", Grave, " flag of ", "{", "browser_full", "}", " as per the corresponding [data guidelines](https://github.com/mdn/browser-compat-data/blob/main/docs/data-guidelines/index.md#removal-of-irrelevant-flag-data). This PR was created from results of the ", Grave, "remove-redundant-flags", Grave, " script.">> ],
          by_feature |->
            [ title |->
                <<"Remove irrelevant ", "{", "browser", "}", " flag data for ", "{", "title", "}">>,
              description |->
                <<"This PR removes irrelevant flag data for ", "{", "browser_full", "}", " for the ", "{", "feature_description", "}", " as per the corresponding [data guidelines](https://github.com/mdn/browser-compat-data/blob/main/docs/data-guidelines/index.md#removal-of-irrelevant-flag-data). This PR was created from results of the ", Grave, "remove-redundant-flags", Grave, " script.">> ],
          branch_suffix |->
            <<"flag-removal">> ] )

\* lines 89-120
data_sources ==
    (  "mdn-bcd-collector" :>
        [ description |->
            <<"The data comes from the [mdn-bcd-collector](https://mdn-bcd-collector.gooborg.com) project (v">> \o collector_version \o <<").", "\n", "\n", "_Check out the [collector's guide on how to review this PR](https://github.com/openwebdocs/mdn-bcd-collector#reviewing-bcd-changes)._">>,
          source |->
            <<"Tests Used: ", "{", "source", "}">> ]
    @@ "runtime-compat" :>
        [ description |->
            <<"The data comes from the [mdn-bcd-collector](https://mdn-bcd-collector.gooborg.com) project (v">> \o collector_version \o <<"), using results collected via [UnJS' runtime-compat project](https://github.com/unjs/runtime-compat).", "\n", "\n", "_Check out the [collector's guide on how to review this PR](https://github.com/openwebdocs/mdn-bcd-collector#reviewing-bcd-changes)._">>,
          source |->
            <<"Tests Used: ", "{", "source", "}">> ]
    @@ "Manual" :>
        [ description |->
            <<"The data comes from manual testing, running test code through BrowserStack, SauceLabs, custom VMs and/or locally.">>,
          source |->
            <<"Test Code: ", "{", "source", "}">> ]
    @@ "Commit" :>
        [ description |->
            <<"The data comes from a commit in the browser's source code, mapped to a version number using available tooling or via the commit timestamp.">>,
          source |->
            <<"Commit: ", "{", "source", "}">> ]
    @@ "Bug" :>
        [ description |->
            <<"The data comes from a bug in the web browser's bug tracker.">>,
          source |->
            <<"Bug: ", "{", "source", "}">> ]
    @@ "Issue Fix" :>
        [ description |->
            <<"This fixes #", "{", "source", "}", ", which contains the supporting evidence for this change.">> ]
    @@ "Mirror" :>
        [ description |->
            <<"This sets the downstream browser(s) to mirror from their upstream counterpart.">> ]
    @@ "Earliest Range from Commit" :>
        [ description |->
            <<"This sets the feature(s) to a version range based upon the date that the feature was added to BCD with the intent of replacing ", Grave, "true", Grave, " values with ranged values to eliminate ", Grave, "true", Grave, " values from BCD.">>,
          source |->
            <<"Commit/PR Adding the Feature: ", "{", "source", "}">> ] )

\* lines 123-147, in declaration order
categories ==
    << [key |-> <<"api">>, title |-> <<"API">>, label |-> <<"data:api">>],
       [key |-> <<"css", ".", "at-rules">>, title |-> <<"CSS at-rule">>, label |-> <<"data:css">>],
       [key |-> <<"css", ".", "selectors">>, title |-> <<"CSS selector">>, label |-> <<"data:css">>],
       [key |-> <<"css", ".", "types">>, title |-> <<"CSS value type">>, label |-> <<"data:css">>],
       [key |-> <<"css", ".", "properties">>, title |-> <<"CSS property">>, label |-> <<"data:css">>],
       [key |-> <<"html">>, title |-> <<"HTML feature">>, label |-> <<"data:html">>],
       [key |-> <<"html", ".", "elements">>, title |-> <<"HTML element">>, label |-> <<"data:html">>],
       [key |-> <<"html", ".", "manifest">>, title |-> <<"HTML manifest property">>, label |-> <<"data:html">>],
       [key |-> <<"http">>, title |-> <<"HTTP feature">>, label |-> <<"data:http">>],
       [key |-> <<"http", ".", "headers">>, title |-> <<"HTTP header">>, label |-> <<"data:http">>],
       [key |-> <<"javascript">>, title |-> <<"JavaScript feature">>, label |-> <<"data:js">>],
       [key |-> <<"javascript", ".", "builtins">>, title |-> <<"JavaScript builtin">>, label |-> <<"data:js">>],
       [key |-> <<"javascript", ".", "operators">>, title |-> <<"JavaScript operator">>, label |-> <<"data:js">>],
       [key |-> <<"mathml">>, title |-> <<"MathML feature">>, label |-> <<"data:mathml">>],
       [key |-> <<"mathml", ".", "elements">>, title |-> <<"MathML element">>, label |-> <<"data:mathml">>],
       [key |-> <<"svg">>, title |-> <<"SVG feature">>, label |-> <<"data:svg">>],
       [key |-> <<"svg", ".", "elements">>, title |-> <<"SVG element">>, label |-> <<"data:svg">>],
       [key |-> <<"webdriver", ".", "commands">>, title |-> <<"Web Driver command">>, label |-> <<"data:webdriver">>],
       [key |-> <<"webextensions">>, title |-> <<"Web Extensions feature">>, label |-> <<"data:webext">>],
       [key |-> <<"webextensions", ".", "api">>, title |-> <<"Web Extensions interface">>, label |-> <<"data:webext">>],
       [key |-> <<"webextensions", ".", "manifest">>, title |-> <<"Web Extensions manifest property">>, label |-> <<"data:webext">>],
       [key |-> <<"webassembly">>, title |-> <<"WebAssembly feature">>, label |-> <<"data:wasm">>],
       [key |-> <<"webassembly", ".", "api">>, title |-> <<"WebAssembly interface">>, label |-> <<"data:wasm">>] >>

\* lines 150-190: an entry is a dict, or a str that serves as both names
browsers ==
    (  <<"chrome">> :> [is_str |-> FALSE, name |-> <<"Chromium">>,
             long_name |-> <<"Chromium (Chrome, Opera, Samsung Internet, WebView Android)">>]
    @@ <<"edge">> :> [is_str |-> FALSE, name |-> <<"Edge">>,
             long_name |-> <<"Microsoft Edge">>]
    @@ <<"firefox">> :> [is_str |-> FALSE, name |-> <<"Firefox">>,
             long_name |-> <<"Firefox and Firefox Android">>]
    @@ <<"opera">> :> [is_str |-> FALSE, name |-> <<"Opera">>,
             long_name |-> <<"Opera and Opera Android">>]
    @@ <<"safari">> :> [is_str |-> FALSE, name |-> <<"Safari">>,
             long_name |-> <<"Safari (Desktop and iOS/iPadOS)">>]
    @@ <<"safariios">> :> [is_str |-> FALSE, name |-> <<"Safari iOS">>,
             long_name |-> <<"Safari iOS/iPadOS">>]
    @@ <<"webkit">> :> [is_str |-> FALSE, name |-> <<"Chrome/Safari">>,
             long_name |-> <<"Chrome and Safari">>]
    @@ <<"chromeandroid">> :> [is_str |-> TRUE, value |-> <<"Chrome Android">>]
    @@ <<"fenix">> :> [is_str |-> TRUE, value |-> <<"Firefox Android">>]
    @@ <<"samsung">> :> [is_str |-> TRUE, value |-> <<"Samsung Internet">>]
    @@ <<"webview_android">> :> [is_str |-> TRUE, value |-> <<"WebView Android">>]
    @@ <<"webview_ios">> :> [is_str |-> FALSE, name |-> <<"WebView iOS">>,
             long_name |-> <<"WebView iOS/iPadOS">>]
    @@ <<"nodejs">> :> [is_str |-> TRUE, value |-> <<"NodeJS">>]
    @@ <<"deno">> :> [is_str |-> TRUE, value |-> <<"Deno">>]
    @@ <<"all">> :> [is_str |-> TRUE, value |-> <<"all browsers">>] )

PrTypeNames ==
    { "Compat Data Corrections", "Metadata Corrections", "New Entry",
      "Real Values Additions", "Feature Removal", "Flag Removal" }

\* dict.get(key, default) on a table entry
GetOr(entry, key, default) ==
    IF key \in DOMAIN entry THEN entry[key] ELSE default

(***************************************************************************)
(* str.format                                                              *)
(*                                                                         *)
(* '{' and '}' are chunks of their own and a replacement field is the      *)
(* three chunks '{', name, '}'.  The result is the formatted str, or a     *)
(* failure for the exception format raises (KeyError for an unknown name,  *)
(* IndexError for '{}', ValueError for a single brace).                    *)
(***************************************************************************)

Formatted(s) == [ok |-> TRUE, str |-> s]
FormatError == [ok |-> FALSE, str |-> <<>>]

\* prefix followed by a formatted rest
After(prefix, rest) ==
    IF rest.ok THEN Formatted(prefix \o rest.str) ELSE FormatError

RECURSIVE Format(_, _)
Format(s, fields) ==
    IF s = <<>> THEN Formatted(<<>>)
    ELSE IF Head(s) = "{"
         THEN IF Len(s) >= 2 /\ s[2] = "{"
              THEN After(<<"{">>, Format(SubSeq(s, 3, Len(s)), fields))
              ELSE IF Len(s) >= 3 /\ s[2] # "}" /\ s[3] = "}" /\ s[2] \in DOMAIN fields
                   THEN After(fields[s[2]], Format(SubSeq(s, 4, Len(s)), fields))
                   ELSE FormatError
    ELSE IF Head(s) = "}"
         THEN IF Len(s) >= 2 /\ s[2] = "}"
              THEN After(<<"}">>, Format(SubSeq(s, 3, Len(s)), fields))
              ELSE FormatError
    ELSE After(<<Head(s)>>, Format(Tail(s), fields))

(***************************************************************************)
(* Helper functions                                                        *)
(***************************************************************************)

\* cat = None, line 195
NoCategory == [key |-> <<>>, title |-> <<>>, label |-> <<>>]

\* line 201; label <<>> is None (no table entry has an empty label)
DefaultCategory == [key |-> <<>>, title |-> <<"feature">>, label |-> <<>>]

\* a plausible slip: the loop returns at the first match
RECURSIVE FirstMatch(_, _, _)
FirstMatch(feature, i, cat) ==
    IF i > Len(categories) THEN cat
    ELSE IF StartsWith(feature, categories[i].key) THEN categories[i]
    ELSE FirstMatch(feature, i + 1, cat)

\* the loop of get_category from entry i on, cat being the match so far
RECURSIVE CategoryScan(_, _, _)
CategoryScan(feature, i, cat) ==
    IF i > Len(categories) THEN cat
    ELSE CategoryScan(feature, i + 1,
                      IF StartsWith(feature, categories[i].key) THEN categories[i] ELSE cat)

get_category(feature) ==
    LET cat == CategoryScan(feature, 1, NoCategory)
    IN  IF cat = NoCategory THEN DefaultCategory ELSE cat

_get_subfeature(feature, category) ==
    LET subfeature == Replace(feature, category.key \o <<".">>, <<>>)
        subfeature_parts == Split(subfeature, ".")
    IN  IF Len(subfeature_parts) = 1
        THEN <<subfeature_parts[1], <<>>>>
        ELSE <<subfeature_parts[1], Join(Tail(subfeature_parts), <<".">>)>>

\* str(value) of an argument that is no str, as one chunk
Repr(name) == <<"str(" \o name \o ")">>

\* the .format(subfeature=..., category=...) applied to each f-string
SubfeatureFields == [n \in {"subfeature", "category"} |-> Repr(n)]

\* a formatted str, or the exception format raised
get_feature_description(feature, category) ==
    LET subfeature == _get_subfeature(feature, category)
    IN  IF subfeature[2] # <<>>
        THEN IF EndsWith(subfeature[2], <<"_static">>)
             THEN Format(<<Grave>> \o Replace(subfeature[2], <<"_static">>, <<>>)
                            \o <<Grave, " static method of the ", Grave>> \o subfeature[1]
                            \o <<Grave, " ">> \o category.title, SubfeatureFields)
             ELSE Format(<<Grave>> \o subfeature[2] \o <<Grave, " member of the ", Grave>>
                            \o subfeature[1] \o <<Grave, " ">> \o category.title, SubfeatureFields)
        ELSE Format(<<Grave>> \o subfeature[1] \o <<Grave, " ">> \o category.title, SubfeatureFields)

\* a plausible slip: the member is named without the category prefix
FeatureTitleOfMember(feature, category) ==
    LET subfeature == _get_subfeature(feature, category)
    IN  IF category = NoCategory THEN Formatted(feature)
        ELSE Format(subfeature[1] \o <<" ">> \o subfeature[2], SubfeatureFields)

get_feature_title(feature, category) ==
    IF category = NoCategory THEN Formatted(feature)
    ELSE LET subfeature == _get_subfeature(feature, category)
         IN  IF subfeature[2] # <<>> THEN Formatted(feature)
             ELSE Format(subfeature[1] \o <<" ">> \o category.title, SubfeatureFields)

\* a plausible slip: '*' is kept in the branch name
BranchNameKeepingStars(cfg) ==
    IF cfg.flag_removal_type = "by_flag"
    THEN <<"flagremoval", "/">> \o Replace(cfg.flag, <<".">>, <<"-">>) \o <<"/">> \o cfg.browser.id
    ELSE LET branch_name == Replace(cfg.feature, <<".">>, <<"/">>)
             branch_suffix == GetOr(pr_types[cfg.pr_type], "branch_suffix", <<>>)
             browser_id == cfg.browser.id
         IN  IF browser_id # <<>>
             THEN IF branch_suffix # <<>>
                  THEN branch_name \o <<"/">> \o browser_id \o <<"-">> \o branch_suffix
                  ELSE branch_name \o <<"/">> \o browser_id
             ELSE IF branch_suffix # <<>>
                  THEN branch_name \o <<"/">> \o branch_suffix
                  ELSE branch_name

get_branch_name(cfg) ==
    IF cfg.flag_removal_type = "by_flag"
    THEN <<"flagremoval", "/">> \o Replace(cfg.flag, <<".">>, <<"-">>) \o <<"/">> \o cfg.browser.id
    ELSE LET branch_name == Replace(Replace(cfg.feature, <<".">>, <<"/">>), <<"*">>, <<>>)
             branch_suffix == GetOr(pr_types[cfg.pr_type], "branch_suffix", <<>>)
             browser_id == cfg.browser.id
         IN  IF browser_id # <<>>
             THEN IF branch_suffix # <<>>
                  THEN branch_name \o <<"/">> \o browser_id \o <<"-">> \o branch_suffix
                  ELSE branch_name \o <<"/">> \o browser_id
             ELSE IF branch_suffix # <<>>
                  THEN branch_name \o <<"/">> \o branch_suffix
                  ELSE branch_name

get_collector_test_url(feature) ==
    LET base_url == <<"https://mdn-bcd-collector.gooborg.com/tests/">>
        slug == Replace(feature, <<".">>, <<"/">>)
    IN  base_url \o Replace(slug, <<"/", "worker_support">>, <<"?exposure=Worker">>)

\* the value list_input returns for browser k, lines 447-450
BrowserChoice(k) ==
    IF browsers[k].is_str
    THEN [id |-> k, name |-> browsers[k].value, long_name |-> browsers[k].value]
    ELSE [id |-> k, name |-> browsers[k].name, long_name |-> browsers[k].long_name]

\* config['browser'] before a browser is asked for, lines 368-372
NoBrowser == [id |-> <<>>, name |-> <<>>, long_name |-> <<>>]

\* the PR types that ask for no browser, line 443
BrowserlessTypes == {"New Entry", "Metadata Corrections", "Feature Removal"}

(***************************************************************************)
(* get_description                                                         *)
(***************************************************************************)

\* a field of config that holds one of the script's own words, as a str
Word(w) == IF w = "" THEN <<>> ELSE <<w>>

\* fmt of lines 347-351: config without 'browser', with browser and
\* browser_full; feature_description and title are keys only once lines
\* 420-421 have run; a field that is no str is formatted by str()
FormatFields(cfg) ==
    [n \in {"category", "file", "labels", "source", "content_update", "auto_stage"} |-> Repr(n)]
    @@ ( "pr_type" :> Word(cfg.pr_type)
      @@ "feature" :> cfg.feature
      @@ "branch" :> cfg.branch
      @@ "description" :> cfg.description
      @@ "additional_notes" :> cfg.additional_notes
      @@ "flag_removal_type" :> Word(cfg.flag_removal_type)
      @@ "flag" :> cfg.flag
      @@ "feature_addition_scope" :> Word(cfg.feature_addition_scope)
      @@ "feature_removal_scope" :> Word(cfg.feature_removal_scope)
      @@ "feature_removal_reason" :> cfg.feature_removal_reason
      @@ "browser" :> cfg.browser.name
      @@ "browser_full" :> cfg.browser.long_name )
    @@ IF cfg.has_title
       THEN ("feature_description" :> cfg.feature_description @@ "title" :> cfg.title)
       ELSE <<>>

\* lines 322-335: the title and description templates of the PR type
Templates(cfg) ==
    LET entry == pr_types[cfg.pr_type]
    IN  IF cfg.pr_type = "New Entry"
        THEN [title |-> entry[cfg.feature_addition_scope].title,
              description |-> entry[cfg.feature_addition_scope].description]
        ELSE IF cfg.pr_type = "Feature Removal"
        THEN [title |-> entry[cfg.feature_removal_scope].title,
              description |-> entry[cfg.feature_removal_scope].description \o <<" ">>
                   \o GetOr(entry.reasons, cfg.feature_removal_reason,
                            cfg.feature_removal_reason)]
        ELSE IF cfg.pr_type = "Flag Removal"
        THEN [title |-> entry[cfg.flag_removal_type].title,
              description |-> entry[cfg.flag_removal_type].description]
        ELSE [title |-> GetOr(entry, "title", <<>>),
              description |-> GetOr(entry, "description", <<>>)]

\* lines 337-345: what the data source adds to the description template
SourceText(cfg) ==
    IF cfg.source.type = "" THEN Formatted(<<>>)
    ELSE IF cfg.source.type \in DOMAIN data_sources
    THEN LET source_data == data_sources[cfg.source.type]
             fields == "source" :> cfg.source.data
             first == IF cfg.pr_type # "Feature Removal"
                      THEN After(<<" ">>, Format(source_data.description, fields))
                      ELSE Formatted(<<>>)
             second == IF "source" \in DOMAIN source_data
                       THEN After(<<"\n", "\n">>, Format(source_data.source, fields))
                       ELSE Formatted(<<>>)
         IN  IF first.ok THEN After(first.str, second) ELSE FormatError
    ELSE Formatted(<<" ">> \o cfg.source.data)

\* the str get_description returns, or the exception a format call raised
get_description(cfg) ==
    LET source_text == SourceText(cfg)
        title == Format(Templates(cfg).title, FormatFields(cfg))
        description == IF source_text.ok
                       THEN Format(Templates(cfg).description \o source_text.str,
                                   FormatFields(cfg))
                       ELSE FormatError
        notes == IF cfg.additional_notes # <<>>
                 THEN <<"\n", "\n", "Additional Notes: ">> \o cfg.additional_notes
                 ELSE <<>>
    IN  IF title.ok /\ description.ok
        THEN Formatted(title.str \o <<"\n", "\n">> \o description.str \o notes)
        ELSE FormatError

(***************************************************************************)
(* JSON values and the data tree                                           *)
(*                                                                         *)
(* A parsed JSON value is an object (a function from keys to values), null *)
(* or true.  Python's None, which dict.get gives for a missing key, is     *)
(* JNull.  A path is a sequence of components, each a str; the working     *)
(* directory Path('.') is the empty path.                                  *)
(***************************************************************************)

JObj(m) == [kind |-> "object", members |-> m]
JEmpty == [kind |-> "object", members |-> <<>>]
JNull == [kind |-> "null", members |-> <<>>]
JTrue == [kind |-> "true", members |-> <<>>]

\* dict.get(key)
JGet(obj, key) ==
    IF key \in DOMAIN obj.members THEN obj.members[key] ELSE JNull

\* bool(value): None and the empty dict are falsy
Truthy(v) ==
    \/ v.kind = "true"
    \/ v.kind = "object" /\ DOMAIN v.members # {}

\* os.path.exists
Exists(tree, path) ==
    \/ path \in tree.dirs
    \/ path \in DOMAIN tree.files

\* the loop of _find_feature_in_file: "true", "false", or "error" when .get is
\* called on a value that is no dict (AttributeError)
RECURSIVE WalkKeys(_, _)
WalkKeys(obj, parts) ==
    IF parts = <<>> THEN "true"
    ELSE IF obj.kind # "object" THEN "error"
    ELSE LET next == JGet(obj, Head(parts))
         IN  IF ~Truthy(next) THEN "false" ELSE WalkKeys(next, Tail(parts))

\* a plausible slip: the walk starts below the identifier's first segment
FindFeatureBelowFirst(tree, feature, file_path) ==
    WalkKeys(tree.files[file_path], Tail(Split(feature, ".")))

_find_feature_in_file(tree, feature, file_path) ==
    WalkKeys(tree.files[file_path], Split(feature, "."))

\* results of find_file_by_feature: a path, False, or an uncaught exception
FileResult(path) == [kind |-> "file", path |-> path]
NotFound == [kind |-> "notfound", path |-> <<>>]
Raised == [kind |-> "error", path |-> <<>>]

JsonName(part) == part \o <<".json">>

\* one "exists and contains the feature" test of the fallbacks
FallbackHit(tree, feature, path) ==
    IF Exists(tree, path) THEN _find_feature_in_file(tree, feature, path) ELSE "false"

\* the Intl/Temporal fallback, lines 295-300
IntlFallback(tree, feature, parts, cwd) ==
    IF \/ StartsWith(feature, <<"javascript", ".", "builtins", ".", "Intl", ".">>)
       \/ StartsWith(feature, <<"javascript", ".", "builtins", ".", "Temporal", ".">>)
    THEN LET input_path == Append(cwd, JsonName(parts[4]))
             hit == FallbackHit(tree, feature, input_path)
         IN  IF hit = "error" THEN Raised
             ELSE IF hit = "true" THEN FileResult(input_path)
             ELSE NotFound
    ELSE NotFound

\* the input-type fallback, lines 290-293, then the rest
InputFallback(tree, feature, parts, cwd) ==
    IF StartsWith(feature, <<"html", ".", "elements", ".", "input", ".", "type_">>)
    THEN LET input_path == Append(cwd, JsonName(Replace(parts[4], <<"type_">>, <<>>)))
             hit == FallbackHit(tree, feature, input_path)
         IN  IF hit = "error" THEN Raised
             ELSE IF hit = "true" THEN FileResult(input_path)
             ELSE IntlFallback(tree, feature, parts, cwd)
    ELSE IntlFallback(tree, feature, parts, cwd)

\* a plausible slip: the globals file is never consulted
FallbackWithoutGlobals(tree, feature, parts, cwd) ==
    InputFallback(tree, feature, parts, cwd)

\* the else branch of the loop, lines 283-300; parts[1] of a one-segment
\* identifier raises IndexError
Fallback(tree, feature, parts, cwd) ==
    IF parts[1] = <<"api">>
    THEN IF Len(parts) < 2 THEN Raised
         ELSE LET globals_path == cwd \o << <<"_globals">>, JsonName(parts[2]) >>
                  hit == FallbackHit(tree, feature, globals_path)
              IN  IF hit = "error" THEN Raised
                  ELSE IF hit = "true" THEN FileResult(globals_path)
                  ELSE InputFallback(tree, feature, parts, cwd)
    ELSE InputFallback(tree, feature, parts, cwd)

\* the for loop of find_file_by_feature from segment i with the cursor at cwd
RECURSIVE LocateFrom(_, _, _, _, _, _)
LocateFrom(tree, feature, skip_file_search, parts, i, cwd) ==
    IF i > Len(parts) THEN NotFound
    ELSE LET dir_path == Append(cwd, parts[i])
             json_path == Append(cwd, JsonName(parts[i]))
             found == IF Exists(tree, json_path) /\ ~skip_file_search
                      THEN _find_feature_in_file(tree, feature, json_path)
                      ELSE "false"
         IN  IF Exists(tree, json_path) /\ skip_file_search THEN FileResult(json_path)
             ELSE IF found = "error" THEN Raised
             ELSE IF found = "true" THEN FileResult(json_path)
             ELSE IF Exists(tree, dir_path)
                  THEN LocateFrom(tree, feature, skip_file_search, parts, i + 1, dir_path)
             ELSE Fallback(tree, feature, parts, cwd)

find_file_by_feature(tree, feature, skip_file_search) ==
    LocateFrom(tree, feature, skip_file_search, Split(feature, "."), 1, <<>>)

(***************************************************************************)
(* Data trees for the locator                                              *)
(***************************************************************************)

\* the most data files a tree of the locator specification holds
MaxFiles == 2

\* the nested objects keys[1] -> ... -> keys[n] -> leaf
RECURSIVE Nest(_, _)
Nest(keys, leaf) ==
    IF keys = <<>> THEN leaf ELSE JObj(Head(keys) :> Nest(Tail(keys), leaf))

Compat == JObj(<<"__compat">> :> JEmpty)

Front(s) == SubSeq(s, 1, Len(s) - 1)

\* file contents tried for an identifier: the whole path with a compat
\* statement, the whole path ending in an empty object, the path without
\* its last key, a scalar where the last key's parent should be, and the
\* path written from the second segment on
Docs(parts) ==
    { Nest(parts, Compat),
      Nest(parts, JEmpty),
      Nest(Front(parts), Compat),
      Nest(Front(parts), JTrue),
      Nest(Tail(parts), Compat) }

Prefix(parts, j) == SubSeq(parts, 1, j)

\* where a tree may hold a file, given that the directories
\* parts[1], parts[1]/parts[2], ... exist to depth k
OwnFiles(parts, k) ==
    { Append(Prefix(parts, j), JsonName(parts[j + 1])) :
        j \in { x \in 0..k : x < Len(parts) } }

GlobalsFiles(parts, k) ==
    IF Len(parts) < 2 THEN {}
    ELSE { Prefix(parts, j) \o << <<"_globals">>, JsonName(parts[2]) >> : j \in 0..k }

SpecialFiles(parts, k) ==
    IF Len(parts) < 4 THEN {}
    ELSE { Append(Prefix(parts, j), JsonName(Replace(parts[4], <<"type_">>, <<>>))) :
             j \in 0..k }

Candidates(parts, k) ==
    OwnFiles(parts, k) \cup GlobalsFiles(parts, k) \cup SpecialFiles(parts, k)

\* the directories of a tree: the chain to depth k and every file's directory
TreeDirs(parts, k, paths) ==
    { Prefix(parts, j) : j \in 0..k } \cup { Front(p) : p \in paths }

LocFeatures ==
    { <<"api", ".", "Foo">>,
      <<"api", ".", "Foo", ".", "bar">>,
      <<"css", ".", "properties", ".", "color">>,
      <<"html", ".", "elements", ".", "input", ".", "type_", "button">>,
      <<"javascript", ".", "builtins", ".", "Intl", ".", "Collator">> }

\* the parts of the state a helper specification leaves alone
NoConfig == [pr_type |-> ""]
NoLint == [do_lint |-> FALSE, returncode |-> 0]
NoPr ==
    [action |-> "normal", branch_exists |-> [local |-> FALSE, remote |-> FALSE],
     current_branch |-> <<>>]
NoGit == [current |-> <<>>]

InitLocate ==
    /\ pc = "locate"
    /\ \E feature \in LocFeatures, skip \in BOOLEAN :
         /\ arg = [feature |-> feature, skip_file_search |-> skip]
         /\ LET parts == Split(feature, ".")
            IN  \E k \in 0..Len(parts) :
                  \E paths \in { P \in SUBSET Candidates(parts, k) : Cardinality(P) <= MaxFiles } :
                    \E content \in [paths -> Docs(parts)] :
                      fs = [dirs |-> TreeDirs(parts, k, paths), files |-> content]
    /\ ret = NotFound
    /\ config = NoConfig
    /\ lint = NoLint
    /\ pr = NoPr
    /\ git = NoGit
    /\ log = <<>>
    /\ out = ""

\* one call of find_file_by_feature
Locate ==
    /\ pc = "locate"
    /\ ret' = find_file_by_feature(fs, arg.feature, arg.skip_file_search)
    /\ pc' = "located"
    /\ UNCHANGED <<fs, arg, config, lint, pr, git, log, out>>

NextLocate == Locate

SpecLocate == InitLocate /\ [][NextLocate]_vars


(***************************************************************************)
(* Claims about the locator (under SpecLocate)                             *)
(***************************************************************************)

LocParts == Split(arg.feature, ".")

\* the candidate file of segment j on the descent parts[1]/.../parts[j-1]
DescentFile(j) == Append(Prefix(LocParts, j - 1), JsonName(LocParts[j]))

\* every key of the path is present, whatever its value
RECURSIVE KeysPresent(_, _)
KeysPresent(obj, keys) ==
    \/ keys = <<>>
    \/ /\ obj.kind = "object"
       /\ Head(keys) \in DOMAIN obj.members
       /\ KeysPresent(obj.members[Head(keys)], Tail(keys))

\* every key of the path is present with a value that is neither null nor
\* an empty object
RECURSIVE KeysNonEmpty(_, _)
KeysNonEmpty(obj, keys) ==
    \/ keys = <<>>
    \/ /\ obj.kind = "object"
       /\ Head(keys) \in DOMAIN obj.members
       /\ obj.members[Head(keys)] \notin {JNull, JEmpty}
       /\ KeysPresent(obj.members[Head(keys)], <<>>)
       /\ KeysNonEmpty(obj.members[Head(keys)], Tail(keys))

\* file F of claim C1 sits at depth k of the pure directory descent
ReachableByDescent(k) ==
    /\ k \in 1..Len(LocParts)
    /\ DescentFile(k) \in DOMAIN fs.files
    /\ \A i \in 1..(k - 1) : Prefix(LocParts, i) \in fs.dirs

\* C1: when a file F on the pure directory descent holds every segment of
\* the identifier as nested present keys, find_file_by_feature(feature,
\* False) returns F or a shallower file of the descent that holds the whole
\* path too, never Not Found.
C1_DescentFileIsReturned ==
    (pc = "located" /\ ~arg.skip_file_search) =>
        \A k \in 1..Len(LocParts) :
            (ReachableByDescent(k) /\ KeysPresent(fs.files[DescentFile(k)], LocParts)) =>
                /\ ret.kind = "file"
                /\ \E j \in 1..k :
                     /\ ret.path = DescentFile(j)
                     /\ KeysPresent(fs.files[ret.path], LocParts)

CssFeature == <<"css", ".", "properties", ".", "color">>
CssPropertiesFile == << <<"css">>, <<"properties", ".json">> >>

\* css/properties.json is the tree's only file and holds Doc
CssScenario(doc) ==
    /\ pc = "located"
    /\ ~arg.skip_file_search
    /\ arg.feature = CssFeature
    /\ DOMAIN fs.files = {CssPropertiesFile}
    /\ fs.files[CssPropertiesFile] = doc

\* C2 as stated: the candidate file is accepted by walking the segments
\* from the file's own segment on, so css/properties.json holding
\* properties -> color (no enclosing css key) is returned for
\* css.properties.color.
C2_AcceptsByRemainingSegments ==
    CssScenario(Nest(Tail(Split(CssFeature, ".")), Compat)) =>
        ret = FileResult(CssPropertiesFile)

\* C2 as amended: with allow-first-match unset a file is returned only when
\* walking every segment of the identifier, the first included, from the
\* file's root finds each as a key with a non-empty value;
\* css/properties.json holding css -> properties -> color is returned for
\* css.properties.color, and holding only properties -> color it is not.
C2_AcceptsByWholePath ==
    /\ (pc = "located" /\ ~arg.skip_file_search /\ ret.kind = "file") =>
           KeysNonEmpty(fs.files[ret.path], LocParts)
    /\ CssScenario(Nest(Split(CssFeature, "."), Compat)) =>
           ret = FileResult(CssPropertiesFile)
    /\ CssScenario(Nest(Tail(Split(CssFeature, ".")), Compat)) =>
           ret = NotFound

C2_Witness ==
    /\ CssScenario(Nest(Split(CssFeature, "."), Compat))
    /\ ret = FileResult(CssPropertiesFile)

\* api/_globals/<second segment>.json
ApiGlobalsFile == << <<"api">>, <<"_globals">>, JsonName(LocParts[2]) >>

\* the call is over, it raised nothing, the identifier is api.<segment>...
\* and the globals file holds the whole path with non-empty values
GlobalsHoldFeature ==
    /\ pc = "located"
    /\ ret.kind # "error"
    /\ LocParts[1] = <<"api">>
    /\ Len(LocParts) >= 2
    /\ ApiGlobalsFile \in DOMAIN fs.files
    /\ KeysNonEmpty(fs.files[ApiGlobalsFile], LocParts)

PassedBy(path) ==
    \/ path \notin DOMAIN fs.files
    \/ ~arg.skip_file_search /\ ~KeysNonEmpty(fs.files[path], LocParts)

\* the walk stops at the second segment: api is a directory, api/<segment>
\* is none, and neither api.json nor api/<segment>.json is accepted
WalkStopsAtSecond ==
    /\ <<LocParts[1]>> \in fs.dirs
    /\ Prefix(LocParts, 2) \notin fs.dirs
    /\ PassedBy(DescentFile(1))
    /\ PassedBy(DescentFile(2))

HelperFeatures ==
    { categories[i].key : i \in 1..Len(categories) }
    \cup { categories[i].key \o <<".", "x">> : i \in 1..Len(categories) }
    \cup { categories[i].key \o <<"x">> : i \in 1..Len(categories) }
    \cup { <<"css">>,
           <<"foo", ".", "bar">>,
           <<"api", ".", "AbortController", ".", "abort">>,
           <<"api", ".", "Foo", ".", "*">>,
           <<"css", ".", "properties", ".", "*", "-", "*">> }

HelperFlags == { <<"MediaRecorder">>, <<"layout", ".", "css", ".", "foo">> }

\* the fields of config that get_branch_name reads, as get_config leaves them
HelperConfigs ==
    { [pr_type |-> "Flag Removal", flag_removal_type |-> "by_flag", flag |-> flag,
       feature |-> <<>>, browser |-> BrowserChoice(k)] :
         flag \in HelperFlags, k \in DOMAIN browsers }
    \cup { [pr_type |-> "Flag Removal", flag_removal_type |-> "by_feature", flag |-> <<>>,
            feature |-> feature, browser |-> BrowserChoice(k)] :
              feature \in HelperFeatures, k \in DOMAIN browsers }
    \cup { [pr_type |-> type, flag_removal_type |-> "", flag |-> <<>>,
            feature |-> feature, browser |-> BrowserChoice(k)] :
              type \in (PrTypeNames \ BrowserlessTypes) \ {"Flag Removal"},
              feature \in HelperFeatures, k \in DOMAIN browsers }
    \cup { [pr_type |-> type, flag_removal_type |-> "", flag |-> <<>>,
            feature |-> feature, browser |-> NoBrowser] :
              type \in BrowserlessTypes, feature \in HelperFeatures }

InitHelpers ==
    /\ pc = "helpers"
    /\ arg \in HelperConfigs
    /\ ret = [category |-> NoCategory, branch |-> <<>>]
    /\ fs = [dirs |-> {<<>>}, files |-> <<>>]
    /\ config = NoConfig
    /\ lint = NoLint
    /\ pr = NoPr
    /\ git = NoGit
    /\ log = <<>>
    /\ out = ""

\* line 410
CallGetCategory ==
    /\ pc = "helpers"
    /\ arg.feature # <<>>
    /\ ret' = [ret EXCEPT !.category = get_category(arg.feature)]
    /\ pc' = "category"
    /\ UNCHANGED <<fs, arg, config, lint, pr, git, log, out>>

\* line 519
CallGetBranchName ==
    /\ pc = "helpers"
    /\ ret' = [ret EXCEPT !.branch = get_branch_name(arg)]
    /\ pc' = "branch"
    /\ UNCHANGED <<fs, arg, config, lint, pr, git, log, out>>

NextHelpers == CallGetCategory \/ CallGetBranchName

SpecHelpers == InitHelpers /\ [][NextHelpers]_vars

(***************************************************************************)
(* Claims about the helpers (under SpecHelpers)                            *)
(***************************************************************************)

\* s with every '.' turned into r
DotsTo(s, r) == [i \in 1..Len(s) |-> IF s[i] = "." THEN r ELSE s[i]]

NotStar(c) == c # "*"

\* what claim C4 says the branch name is
ExpectedBranch(cfg) ==
    IF cfg.flag_removal_type = "by_flag"
    THEN <<"flagremoval", "/">> \o DotsTo(cfg.flag, "-") \o <<"/">> \o cfg.browser.id
    ELSE LET base == SelectSeq(DotsTo(cfg.feature, "/"), NotStar)
             has_suffix == "branch_suffix" \in DOMAIN pr_types[cfg.pr_type]
             suffix == pr_types[cfg.pr_type].branch_suffix
             has_browser == cfg.browser.id # <<>>
         IN  CASE has_browser /\ has_suffix -> base \o <<"/">> \o cfg.browser.id \o <<"-">> \o suffix
               [] has_browser /\ ~has_suffix -> base \o <<"/">> \o cfg.browser.id
               [] ~has_browser /\ has_suffix -> base \o <<"/">> \o suffix
               [] OTHER -> base

AbortFeature == <<"api", ".", "AbortController", ".", "abort">>

RealValuesOnAbort ==
    /\ arg.pr_type = "Real Values Additions"
    /\ arg.feature = AbortFeature
    /\ arg.browser.id = <<"firefox">>

\* C4: get_branch_name gives flagremoval/<flag, '.' as '-'>/<browser id>
\* for removal by flag, and otherwise the identifier with '.' as '/' and
\* '*' removed, followed by /<browser id>-<suffix>, /<browser id>,
\* /<suffix> or nothing; so without by_flag the name holds no '.' and no
\* '*', and Real Values Additions on api.AbortController.abort for firefox
\* gives api/AbortController/abort/firefox-real-values.
C4_BranchName ==
    pc = "branch" =>
        /\ ret.branch = ExpectedBranch(arg)
        /\ arg.flag_removal_type # "by_flag" =>
               \A i \in 1..Len(ret.branch) : ret.branch[i] \notin {".", "*"}
        /\ RealValuesOnAbort =>
               Text(ret.branch) = "api/AbortController/abort/firefox-real-values"

C4_Witness ==
    /\ pc = "branch"
    /\ RealValuesOnAbort
    /\ Text(ret.branch) = "api/AbortController/abort/firefox-real-values"

\* the table entries whose key the identifier starts with
Matching(feature) ==
    { i \in 1..Len(categories) : StartsWith(feature, categories[i].key) }

\* C6: get_category returns the entry with the longest key that is a
\* prefix of the identifier, which is the last matching entry in
\* declaration order (no key is declared after a key that extends it), and
\* the default category (key "", title "feature", no label) when no key is
\* a prefix.
C6_LongestPrefixIsLastMatch ==
    /\ \A i, j \in 1..Len(categories) :
           (i < j /\ StartsWith(categories[i].key, categories[j].key)) =>
               categories[i].key = categories[j].key
    /\ pc = "category" =>
           IF Matching(arg.feature) = {}
           THEN ret.category = [key |-> <<>>, title |-> <<"feature">>, label |-> <<>>]
           ELSE \E i \in Matching(arg.feature) :
                  /\ ret.category = categories[i]
                  /\ \A j \in Matching(arg.feature) :
                       /\ Len(categories[j].key) <= Len(categories[i].key)
                       /\ j <= i

C6_Witness ==
    /\ pc = "category"
    /\ Cardinality(Matching(arg.feature)) = 2
    /\ ret.category.key = <<"html", ".", "elements">>


(***************************************************************************)
(* The wizard: main() runs get_config, do_lint and do_pr                   *)
(*                                                                         *)
(* pc names the prompt the run waits at, or the step it takes next;        *)
(* "crashed" is an uncaught exception, "done" the return of main.          *)
(***************************************************************************)

\* config['file'] before the locator ran ('') and after removal by flag (None)
Unset == [kind |-> "unset", path |-> <<>>]
None == [kind |-> "none", path |-> <<>>]

\* lines 359-387
InitialConfig ==
    [ pr_type |-> "", feature |-> <<>>, category |-> NoCategory, file |-> Unset,
      branch |-> <<>>, labels |-> <<>>, description |-> <<>>,
      browser |-> NoBrowser, source |-> [type |-> "", data |-> <<>>],
      content_update |-> FALSE, additional_notes |-> <<>>, auto_stage |-> FALSE,
      flag_removal_type |-> "", flag |-> <<>>,
      feature_addition_scope |-> "", feature_removal_scope |-> "",
      feature_removal_reason |-> <<>>,
      has_title |-> FALSE, feature_description |-> <<>>, title |-> <<>> ]

\* a small checkout of the data repository
DataTree ==
    [ dirs |-> { <<>>, << <<"api">> >>, << <<"api">>, <<"_globals">> >>,
                 << <<"css">> >>, << <<"css">>, <<"properties">> >> },
      files |->
           << <<"api">>, <<"AbortController", ".json">> >> :>
               Nest(<< <<"api">>, <<"AbortController">> >>,
                    JObj(<<"__compat">> :> JEmpty @@ <<"abort">> :> Compat))
        @@ << <<"api">>, <<"_globals">>, <<"fetch", ".json">> >> :>
               Nest(<< <<"api">>, <<"fetch">> >>, Compat)
        @@ << <<"css">>, <<"properties">>, <<"color", ".json">> >> :>
               Nest(<< <<"css">>, <<"properties">>, <<"color">> >>, Compat) ]

\* answers tried at the free-text prompts
WizFeatures ==
    { <<"api", ".", "AbortController", ".", "abort">>,
      <<"api", ".", "fetch">>,
      <<"api", ".", "Missing">>,
      <<"css", ".", "properties", ".", "color">> }

WizFlags == { <<"MediaRecorder">>, <<"layout", ".", "css", ".", "foo">> }

WizBrowsers == { <<"firefox">>, <<"chrome">>, <<"chromeandroid">> }

WizNotes == { <<>>, <<"Checked against the specification.">> }

WizReasons ==
    { <<"Irrelevant">>, <<"Non-Interface">>, <<"It never shipped in any browser.">> }

\* typed at "Where does this data come from?" instead of a listed source
WizOtherSources ==
    { <<"See the release notes.">>,
      <<"See the notes for ", "{", "feature", "}">>,
      <<"Tested with document.all ", "{", " ", "}">> }

\* typed at the prompt that follows a listed source
WizSourceData ==
       "Manual" :> { <<"http", "s://example.org/test.html">>,
                     <<" ", "typeof AbortController", " ">>,
                     <<"if (self.fetch) ", "{", " done() ", "}">> }
    @@ "Commit" :> { <<"https://example.org/commit/abc123">> }
    @@ "Bug" :> { <<"1234567">> }
    @@ "Issue Fix" :> { <<"#", "1234">> }
    @@ "Earliest Range from Commit" :> { <<"#", "5678">> }

HasFile(cfg) == cfg.file.kind = "file"

\* where a step leaves the run: the next position and the config so far
Goto(position, cfg) == [pc |-> position, config |-> cfg]

\* lines 518-521; a format error in get_description is not caught
Finish(cfg) ==
    LET description == get_description(cfg)
    IN  IF ~description.ok THEN Goto("crashed", cfg)
        ELSE LET described == [cfg EXCEPT !.description = description.str]
             IN  Goto("do_lint", [described EXCEPT !.branch = get_branch_name(described)])

\* lines 508-512: the category's label, then the notes prompt
ToNotes(cfg) ==
    IF cfg.category # NoCategory /\ cfg.category.label # <<>>
    THEN Goto("notes", [cfg EXCEPT !.labels = Append(@, cfg.category.label)])
    ELSE Goto("notes", cfg)

\* lines 454 and 479
AfterBrowser(cfg) ==
    IF cfg.pr_type = "Feature Removal" THEN Goto("removal_scope", cfg)
    ELSE IF cfg.pr_type \notin {"Metadata Corrections", "Flag Removal"} THEN Goto("source", cfg)
    ELSE ToNotes(cfg)

\* line 443
AfterAddition(cfg) ==
    IF cfg.pr_type \notin BrowserlessTypes THEN Goto("browser", cfg) ELSE AfterBrowser(cfg)

\* line 425
AfterFeature(cfg) ==
    IF cfg.pr_type = "New Entry" THEN Goto("addition_scope", cfg) ELSE AfterAddition(cfg)

\* lines 420-421, once the loop is left
Describe(cfg) ==
    LET feature_description == get_feature_description(cfg.feature, cfg.category)
        title == get_feature_title(cfg.feature, cfg.category)
    IN  IF ~feature_description.ok \/ ~title.ok THEN Goto("crashed", cfg)
        ELSE AfterFeature([cfg EXCEPT !.has_title = TRUE,
                                      !.feature_description = feature_description.str,
                                      !.title = title.str])

\* a plausible slip: every removal names the collector as its source
RemovalSourceAlways(cfg, reason) ==
    [type |-> "mdn-bcd-collector", data |-> get_collector_test_url(cfg.feature)]

\* lines 470-474
RemovalSource(cfg, reason) ==
    IF reason # <<"Non-Interface">>
    THEN [type |-> "mdn-bcd-collector", data |-> get_collector_test_url(cfg.feature)]
    ELSE cfg.source

Step(target) ==
    /\ pc' = target.pc
    /\ config' = target.config
    /\ UNCHANGED <<fs, arg, ret, lint, pr, git, log, out>>

\* lines 390-400
AskPrType ==
    /\ pc = "pr_type"
    /\ \E type \in PrTypeNames :
         Step(Goto(IF type = "Flag Removal" THEN "flag_removal_type" ELSE "feature",
                   [config EXCEPT !.pr_type = type]))

\* lines 397-403
AskFlagRemovalType ==
    /\ pc = "flag_removal_type"
    /\ \E type \in {"by_flag", "by_feature"} :
         Step(Goto(IF type = "by_flag" THEN "flag" ELSE "feature",
                   [config EXCEPT !.flag_removal_type = type]))

\* lines 404-405
AskFlag ==
    /\ pc = "flag"
    /\ \E flag \in WizFlags :
         Step(AfterFeature([config EXCEPT !.flag = flag, !.file = None]))

\* lines 408-412: one round of the loop up to the locator's answer
AskFeature ==
    /\ pc = "feature"
    /\ \E feature \in WizFeatures :
         LET named == [config EXCEPT !.feature = feature,
                                     !.category = get_category(feature)]
             file == find_file_by_feature(fs, feature, config.pr_type = "Feature Removal")
         IN  IF file.kind = "error" THEN Step(Goto("crashed", named))
             ELSE IF file.kind = "file" THEN Step(Describe([named EXCEPT !.file = file]))
             ELSE Step(Goto("proceed", [named EXCEPT !.file = file]))

\* a plausible slip: answering no ends the run
ProceedOrQuit ==
    /\ pc = "proceed"
    /\ \E skip \in BOOLEAN :
         IF skip THEN Step(Describe(config)) ELSE Step(Goto("done", config))

\* lines 413-418: the yes/no prompt after Not Found
AskProceed ==
    /\ pc = "proceed"
    /\ \E skip \in BOOLEAN :
         IF skip THEN Step(Describe(config)) ELSE Step(Goto("feature", config))

\* lines 426-431: the file is untracked, so the whole feature is new
AdditionOfUntrackedFile ==
    /\ pc = "addition_scope"
    /\ Step(AfterAddition([config EXCEPT !.feature_addition_scope = "entire"]))

\* lines 432-441
AskAdditionScope ==
    /\ pc = "addition_scope"
    /\ \E scope \in {"entire", "subfeatures"} :
         Step(AfterAddition([config EXCEPT !.feature_addition_scope = scope]))

\* lines 444-452
AskBrowser ==
    /\ pc = "browser"
    /\ \E k \in WizBrowsers :
         Step(AfterBrowser([config EXCEPT !.browser = BrowserChoice(k)]))

\* lines 455-463
AskRemovalScope ==
    /\ pc = "removal_scope"
    /\ \E scope \in {"entire", "subfeatures"} :
         Step(Goto("removal_reason", [config EXCEPT !.feature_removal_scope = scope]))

\* lines 464-474
AskRemovalReason ==
    /\ pc = "removal_reason"
    /\ \E reason \in WizReasons :
         Step(Goto("content_update",
                   [config EXCEPT !.feature_removal_reason = reason,
                                  !.source = RemovalSource(config, reason)]))

\* lines 476-478
AskContentUpdate ==
    /\ pc = "content_update"
    /\ \E answer \in BOOLEAN :
         Step(ToNotes([config EXCEPT
                          !.content_update = answer,
                          !.labels = IF answer THEN Append(@, <<"needs content update">>)
                                     ELSE @]))

\* lines 480-493: a listed source, or a text typed instead
AskSource ==
    /\ pc = "source"
    /\ \/ \E source \in WizOtherSources :
            Step(ToNotes([config EXCEPT !.source = [type |-> "Other", data |-> source]]))
       \/ \E source \in DOMAIN data_sources :
            LET typed == [config EXCEPT !.source.type = source]
            IN  IF source \in {"mdn-bcd-collector", "runtime-compat"}
                THEN Step(ToNotes([typed EXCEPT
                                      !.source.data = get_collector_test_url(config.feature)]))
                ELSE IF source \in DOMAIN WizSourceData THEN Step(Goto("source_data", typed))
                ELSE Step(ToNotes(typed))

\* lines 494-506: the text prompt of the listed source
AskSourceData ==
    /\ pc = "source_data"
    /\ \E text \in WizSourceData[config.source.type] :
         LET data == IF config.source.type = "Manual"
                     THEN IF StartsWith(text, <<"http">>) THEN text
                          ELSE <<"\n", "<grave><grave><grave>", "\n">> \o Strip(text)
                                   \o <<"\n", "<grave><grave><grave>">>
                     ELSE IF config.source.type = "Issue Fix"
                     THEN Replace(text, <<"#">>, <<>>)
                     ELSE text
         IN  Step(ToNotes([config EXCEPT !.source.data = data]))

\* lines 512-516
AskNotes ==
    /\ pc = "notes"
    /\ \E notes \in WizNotes :
         LET noted == [config EXCEPT !.additional_notes = notes]
         IN  IF HasFile(noted) THEN Step(Goto("stage", noted)) ELSE Step(Finish(noted))

\* line 516
AskStage ==
    /\ pc = "stage"
    /\ \E answer \in BOOLEAN :
         Step(Finish([config EXCEPT !.auto_stage = answer]))

get_config ==
    \/ AskPrType
    \/ AskFlagRemovalType
    \/ AskFlag
    \/ AskFeature
    \/ AskProceed
    \/ AdditionOfUntrackedFile
    \/ AskAdditionScope
    \/ AskBrowser
    \/ AskRemovalScope
    \/ AskRemovalReason
    \/ AskContentUpdate
    \/ AskSource
    \/ AskSourceData
    \/ AskNotes
    \/ AskStage

(***************************************************************************)
(* do_lint                                                                 *)
(***************************************************************************)

\* how often the log repeats a command that a loop runs again and again
MaxLoggedRepeats == 2

\* the number of times cmd ends the log
RECURSIVE TrailingRepeats(_, _)
TrailingRepeats(l, cmd) ==
    IF l # <<>> /\ l[Len(l)] = cmd THEN 1 + TrailingRepeats(Front(l), cmd) ELSE 0

\* the log after subprocess.run(cmd); further repeats of a command already
\* logged MaxLoggedRepeats times in a row are not written down
Logged(l, cmd) ==
    IF TrailingRepeats(l, cmd) >= MaxLoggedRepeats THEN l ELSE Append(l, cmd)

LintFixCmd == "npm run lint:fix"
LintCheckCmd == "npm run lint"

\* lines 524-525
LintWithoutFile ==
    /\ pc = "do_lint"
    /\ ~HasFile(config)
    /\ pc' = "do_pr"
    /\ UNCHANGED <<fs, arg, ret, config, lint, pr, git, log, out>>

\* a plausible slip: the fix command sits inside the loop
LintFixInLoop ==
    /\ pc = "do_lint"
    /\ HasFile(config)
    /\ lint' = [do_lint |-> TRUE, returncode |-> 0]
    /\ pc' = "lint_check"
    /\ UNCHANGED <<fs, arg, ret, config, pr, git, log, out>>

\* lines 528-531
LintFix ==
    /\ pc = "do_lint"
    /\ HasFile(config)
    /\ log' = Logged(log, LintFixCmd)
    /\ lint' = [do_lint |-> TRUE, returncode |-> 0]
    /\ pc' = "lint_check"
    /\ UNCHANGED <<fs, arg, ret, config, pr, git, out>>

\* lines 533-536: the check reports success and the loop ends
LintCheckPasses ==
    /\ pc = "lint_check"
    /\ log' = Logged(log, LintCheckCmd)
    /\ lint' = [do_lint |-> FALSE, returncode |-> 0]
    /\ pc' = "do_pr"
    /\ UNCHANGED <<fs, arg, ret, config, pr, git, out>>

\* lines 533, 537-539: the check reports errors
LintCheckFails ==
    /\ pc = "lint_check"
    /\ log' = Logged(log, LintCheckCmd)
    /\ lint' = [lint EXCEPT !.returncode = 1]
    /\ out' = "Linting errors detected! Please fix them."
    /\ pc' = "lint_retry"
    /\ UNCHANGED <<fs, arg, ret, config, pr, git>>

\* line 541
AskLintAgain ==
    /\ pc = "lint_retry"
    /\ \E answer \in BOOLEAN :
         /\ lint' = [lint EXCEPT !.do_lint = answer]
         /\ pc' = IF answer THEN "lint_check" ELSE "do_pr"
    /\ UNCHANGED <<fs, arg, ret, config, pr, git, log, out>>

do_lint ==
    \/ LintWithoutFile
    \/ LintFix
    \/ LintCheckPasses
    \/ LintCheckFails
    \/ AskLintAgain

(***************************************************************************)
(* do_pr                                                                   *)
(***************************************************************************)

BranchExistsMessage ==
    "This branch exists either locally or upstream!  You will need to delete the branch first before proceeding."

\* lines 555-584: the prompt that would choose the action
BranchAction(branch_exists, answer) ==
    IF branch_exists.remote THEN answer
    ELSE IF branch_exists.local THEN answer
    ELSE "normal"

BranchAnswers == {"cancel", "force-continue", "delete"}

\* a plausible slip: the early return of lines 551-553 is missing
BranchExistsWithoutReturn ==
    /\ pc = "do_pr"
    /\ git.local \/ git.remote
    /\ log' = log \o <<"git rev-parse --verify", "git ls-remote --exit-code --heads origin",
                       "git branch --show-current">>
    /\ lint' = NoLint
    /\ pr' = [action |-> "normal",
              branch_exists |-> [local |-> git.local, remote |-> git.remote],
              current_branch |-> git.current]
    /\ pc' = "create_branch"
    /\ UNCHANGED <<fs, arg, ret, config, git, out>>

\* lines 544-553: the branch exists, so do_pr prints a message and returns
BranchExists ==
    /\ pc = "do_pr"
    /\ git.local \/ git.remote
    /\ log' = log \o <<"git rev-parse --verify", "git ls-remote --exit-code --heads origin">>
    /\ lint' = NoLint
    /\ pr' = [action |-> "normal",
              branch_exists |-> [local |-> git.local, remote |-> git.remote],
              current_branch |-> <<>>]
    /\ out' = BranchExistsMessage
    /\ pc' = "done"
    /\ UNCHANGED <<fs, arg, ret, config, git>>

\* lines 544-598 with no branch of that name: no prompt of lines 555-584
\* applies, the action stays "normal" and the current branch is read
BranchIsNew ==
    /\ pc = "do_pr"
    /\ ~(git.local \/ git.remote)
    /\ \E answer \in BranchAnswers :
         LET branch_exists == [local |-> git.local, remote |-> git.remote]
             action == BranchAction(branch_exists, answer)
         IN  /\ pr' = [action |-> action, branch_exists |-> branch_exists,
                       current_branch |-> IF action = "cancel" THEN <<>> ELSE git.current]
             /\ log' = log \o <<"git rev-parse --verify",
                                "git ls-remote --exit-code --heads origin">>
                           \o IF action = "cancel" THEN <<>> ELSE <<"git branch --show-current">>
             /\ out' = IF action = "cancel" THEN "PR creation cancelled." ELSE out
             /\ pc' = IF action = "cancel" THEN "done" ELSE "create_branch"
    /\ lint' = NoLint
    /\ UNCHANGED <<fs, arg, ret, config, git>>

\* a plausible slip: the exit code of the command is not looked at
RunCommandUnchecked(at, description, command, effect, then) ==
    /\ pc = at
    /\ out' = description
    /\ log' = Append(log, command)
    /\ \/ /\ git' = effect
          /\ pc' = then
       \/ /\ git' = git
          /\ pc' = then
    /\ UNCHANGED <<fs, arg, ret, config, lint, pr>>

\* run_command, lines 310-314: the description is printed and the command
\* run; a non-zero exit raises an exception that nothing catches
RunCommand(at, description, command, effect, then) ==
    /\ pc = at
    /\ out' = description
    /\ log' = Append(log, command)
    /\ \/ /\ git' = effect
          /\ pc' = then
       \/ /\ git' = git
          /\ pc' = "crashed"
    /\ UNCHANGED <<fs, arg, ret, config, lint, pr>>

\* line 600
CreateBranch ==
    RunCommand("create_branch", "Creating branch...", "git branch",
               [git EXCEPT !.local = TRUE], "checkout_branch")

\* lines 601-604
CheckoutBranch ==
    RunCommand("checkout_branch", "Checking out branch...", "git checkout",
               [git EXCEPT !.current = config.branch],
               IF config.auto_stage THEN "stage_file" ELSE "commit")

\* line 605
StageFile ==
    RunCommand("stage_file", "Staging " \o Text(Join(config.file.path, <<"/">>)) \o "...",
               "git add",
               [git EXCEPT !.staged = TRUE], "commit")

\* lines 608-610: one -m per line of the description
Commit ==
    RunCommand("commit", "Creating commit...", "git commit",
               [git EXCEPT !.committed = TRUE, !.staged = FALSE,
                           !.message = Split(config.description, "\n")],
               "wait")

\* line 613
PressEnter ==
    /\ pc = "wait"
    /\ pc' = "push"
    /\ UNCHANGED <<fs, arg, ret, config, lint, pr, git, log, out>>

\* line 616
Push ==
    RunCommand("push", "Pushing branch...", "git push --set-upstream origin",
               [git EXCEPT !.remote = TRUE], "create_pr")

\* a plausible slip: the other changes are never stashed
CreatePrWithoutStash ==
    RunCommand("create_pr", "Creating PR...", "gh pr create --fill",
               [git EXCEPT !.pull_request = TRUE, !.pr_labels = config.labels],
               "checkout_original")

\* lines 617-620
CreatePr ==
    RunCommand("create_pr", "Creating PR...", "gh pr create --fill",
               [git EXCEPT !.pull_request = TRUE, !.pr_labels = config.labels],
               IF ~config.auto_stage THEN "stash" ELSE "checkout_original")

\* line 621: git stash saves the other changes, if there are any
Stash ==
    \/ RunCommand("stash", "Stashing other changes...", "git stash",
                  [git EXCEPT !.stash = @ + 1], "checkout_original")
    \/ RunCommand("stash", "Stashing other changes...", "git stash",
                  git, "checkout_original")

\* line 623
CheckoutOriginal ==
    RunCommand("checkout_original", "Switching back to original branch...", "git checkout",
               [git EXCEPT !.current = pr.current_branch], "delete_branch")

\* lines 624-626
DeleteBranch ==
    RunCommand("delete_branch", "Deleting new branch...", "git branch -d",
               [git EXCEPT !.local = FALSE],
               IF ~config.auto_stage THEN "stash_list" ELSE "complete")

\* lines 627-628
ListStashes ==
    /\ pc = "stash_list"
    /\ log' = Append(log, "git stash list")
    /\ pc' = IF git.stash > 0 THEN "stash_pop" ELSE "complete"
    /\ UNCHANGED <<fs, arg, ret, config, lint, pr, git, out>>

\* line 629
PopStash ==
    RunCommand("stash_pop", "Popping stash...", "git stash pop",
               [git EXCEPT !.stash = @ - 1], "reset")

\* line 630
Reset ==
    RunCommand("reset", "Resetting state...", "git reset",
               [git EXCEPT !.staged = FALSE], "complete")

\* line 632
Complete ==
    /\ pc = "complete"
    /\ out' = "Complete!"
    /\ pc' = "done"
    /\ UNCHANGED <<fs, arg, ret, config, lint, pr, git, log>>

CheckBranch == BranchExists \/ BranchIsNew

do_pr ==
    \/ CheckBranch
    \/ CreateBranch
    \/ CheckoutBranch
    \/ StageFile
    \/ Commit
    \/ PressEnter
    \/ Push
    \/ CreatePr
    \/ Stash
    \/ CheckoutOriginal
    \/ DeleteBranch
    \/ ListStashes
    \/ PopStash
    \/ Reset
    \/ Complete

(***************************************************************************)
(* main                                                                    *)
(***************************************************************************)

\* the repository when the script starts: on main, nothing staged, a
\* branch of the name the run will compute may exist here or on origin,
\* and the stash list (its length is kept) may hold an entry of old
InitialGit ==
    { [ current |-> <<"main">>, local |-> local, remote |-> remote, staged |-> FALSE,
        committed |-> FALSE, message |-> <<>>, pull_request |-> FALSE,
        pr_labels |-> <<>>, stash |-> stash ] :
          local \in BOOLEAN, remote \in BOOLEAN, stash \in {0, 1} }

Init ==
    /\ pc = "pr_type"
    /\ fs = DataTree
    /\ arg = <<>>
    /\ ret = <<>>
    /\ config = InitialConfig
    /\ lint = NoLint
    /\ pr = NoPr
    /\ git \in InitialGit
    /\ log = <<>>
    /\ out = ""

\* lines 634-639
Next == get_config \/ do_lint \/ do_pr

Spec == Init /\ [][Next]_vars

\* a check that is run again and again reports success in the end
SpecLintFair == Spec /\ WF_vars(do_lint) /\ SF_vars(LintCheckPasses)

(***************************************************************************)
(* Claims about a whole run (under Spec)                                   *)
(***************************************************************************)

WizardPositions ==
    { "pr_type", "flag_removal_type", "flag", "feature", "proceed", "addition_scope",
      "browser", "removal_scope", "removal_reason", "content_update", "source",
      "source_data", "notes", "stage" }

\* get_config has returned, so config['description'] is get_description's result
Assembled == pc \notin WizardPositions /\ config.description # <<>>

\* t is spelled by some run of chunks of s
ContainsText(s, t) ==
    \E i \in 1..Len(s) : \E j \in i..Len(s) : Text(SubSeq(s, i, j)) = t

TitleLine == Text(Head(Split(config.description, "\n")))

RealValuesForFirefoxOnAbort ==
    /\ Assembled
    /\ config.pr_type = "Real Values Additions"
    /\ config.feature = AbortFeature
    /\ config.browser.name = <<"Firefox">>

\* C5, as the claim states it: for Real Values Additions on
\* api.AbortController.abort with browser name Firefox, the first line of
\* the description is "Add Firefox versions for AbortController abort".
C5_TitleNamesInterfaceAndMember ==
    RealValuesForFirefoxOnAbort =>
        TitleLine = "Add Firefox versions for AbortController abort"

\* C5, as the code has it: get_feature_title returns the whole identifier
\* for a member of an interface, so the first line of the description is
\* "Add Firefox versions for api.AbortController.abort".
C5_TitleNamesWholeIdentifier ==
    RealValuesForFirefoxOnAbort =>
        /\ config.title = AbortFeature
        /\ TitleLine = "Add Firefox versions for api.AbortController.abort"

C5_Witness ==
    /\ RealValuesForFirefoxOnAbort
    /\ pc = "do_lint"
    /\ TitleLine = "Add Firefox versions for api.AbortController.abort"

NonInterfaceRemoval ==
    /\ Assembled
    /\ config.pr_type = "Feature Removal"
    /\ config.feature_removal_reason = <<"Non-Interface">>

\* C7: in every run with PR type Feature Removal and removal reason
\* Non-Interface the source type is unset when the description is
\* assembled, and the description holds neither the collector's source
\* description nor a "Tests Used:" paragraph, whatever the other answers.
C7_NonInterfaceRemovalNamesNoCollector ==
    NonInterfaceRemoval =>
        /\ config.source.type = ""
        /\ ~Contains(config.description, data_sources["mdn-bcd-collector"].description)
        /\ ~ContainsText(config.description, "Tests Used: ")
        /\ ~ContainsText(config.description, "Tests Used:")

C7_Witness ==
    /\ NonInterfaceRemoval
    /\ pc = "do_lint"
    /\ config.feature = AbortFeature
    /\ config.feature_removal_scope = "subfeatures"
    /\ config.additional_notes # <<>>
    /\ config.source.type = ""

\* commands of do_pr that change the repository or the remote
Mutating ==
    { "git branch", "git checkout", "git add", "git commit",
      "git push --set-upstream origin", "gh pr create --fill", "git stash",
      "git branch -d", "git stash pop", "git reset" }

Ran(commands) == \E i \in 1..Len(log) : log[i] \in commands

BranchWasFound == pr.branch_exists.local \/ pr.branch_exists.remote

\* C8, as the claim states it: a run that found the branch to exist has
\* put the choice between cancel, force and delete to the user, so when it
\* has returned the action is one the user chose.
C8_ExistingBranchIsAChoice ==
    (pc = "done" /\ BranchWasFound) => pr.action \in BranchAnswers

\* C8, as the code has it: both existence checks run before any command
\* that changes the repository; a run that finds the branch, locally or on
\* the remote, prints that the branch has to be deleted first and returns
\* at once, without a prompt: it creates, pushes and deletes no branch, and
\* the repository is left as it was.
C8_ExistingBranchEndsTheRun ==
    /\ \A i \in 1..Len(log) :
           log[i] \in Mutating =>
               \E j, k \in 1..(i - 1) :
                   /\ log[j] = "git rev-parse --verify"
                   /\ log[k] = "git ls-remote --exit-code --heads origin"
    /\ pc = "create_branch" => ~(git.local \/ git.remote)
    /\ BranchWasFound =>
           /\ pc = "done"
           /\ out = BranchExistsMessage
           /\ pr.action = "normal"
           /\ ~Ran(Mutating)
           /\ git \in InitialGit
           /\ git.local = pr.branch_exists.local
           /\ git.remote = pr.branch_exists.remote

C8_Witness ==
    /\ pc = "done"
    /\ pr.branch_exists.remote
    /\ ~pr.branch_exists.local
    /\ out = BranchExistsMessage
    /\ HasFile(config)

\* C10: with a free-text ("Other") source the description holds the text
\* exactly as the user entered it and assembling it does not fail, also
\* for a text with '{' or '}' in it or one that looks like a placeholder.
C10_OtherSourceTextIsKept ==
    (config.source.type = "Other" /\ pc \notin WizardPositions) =>
        /\ config.description # <<>>
        /\ Contains(config.description, <<" ">> \o config.source.data)

(***************************************************************************)
(* Claims about do_lint (under SpecLintFair)                               *)
(***************************************************************************)

Count(l, cmd) == Cardinality({ i \in 1..Len(l) : l[i] = cmd })

InLint == pc \in {"do_lint", "lint_check", "lint_retry"}

\* the lint commands in the log are in order: one fix, then checks
FixOnceBeforeChecks ==
    /\ Count(log, LintFixCmd) <= 1
    /\ \A i \in 1..Len(log) :
           log[i] = LintCheckCmd => \E j \in 1..(i - 1) : log[j] = LintFixCmd
    /\ (HasFile(config) /\ pc \in {"lint_check", "lint_retry"}) =>
           Count(log, LintFixCmd) = 1
    /\ (HasFile(config) /\ pc \notin WizardPositions
          /\ pc \notin {"do_lint", "lint_check", "crashed"}) =>
           /\ Count(log, LintFixCmd) = 1
           /\ Count(log, LintCheckCmd) >= 1
    /\ pc = "lint_retry" => log[Len(log)] = LintCheckCmd

NoLintWithoutFile ==
    (~HasFile(config)) => ~Ran({LintFixCmd, LintCheckCmd})

\* do_lint returns right after a successful check, right after the user
\* declined another try, or at once when there is no file
ReturnsOnlyWhenAllowed ==
    (InLint /\ pc' \notin {"do_lint", "lint_check", "lint_retry"}) =>
        /\ pc' = "do_pr"
        /\ \/ /\ pc = "lint_check"
              /\ lint'.returncode = 0
              /\ log'[Len(log')] = LintCheckCmd
           \/ /\ pc = "lint_retry"
              /\ lint.returncode = 1
              /\ ~lint'.do_lint
           \/ /\ pc = "do_lint"
              /\ ~HasFile(config)

\* a failed check leads to the retry prompt, and a retry to another check
FailedCheckAsks ==
    /\ (pc = "lint_check" /\ lint'.returncode # 0) =>
           /\ pc' = "lint_retry"
           /\ out' = "Linting errors detected! Please fix them."
    /\ (pc = "lint_retry" /\ lint'.do_lint) =>
           /\ pc' = "lint_check"
           /\ log' = log

\* C9: with a file, the fix command runs exactly once and before any check;
\* the check is re-run in a loop and do_lint returns only right after a
\* check that succeeded or right after the user declined to retry; every
\* failed check is followed by the retry prompt; without a file no lint
\* command runs; and when a check that is run again and again succeeds in
\* the end, do_lint returns in the end.
C9_LintLoop ==
    /\ [](FixOnceBeforeChecks /\ NoLintWithoutFile)
    /\ [][ReturnsOnlyWhenAllowed /\ FailedCheckAsks]_vars
    /\ (InLint ~> pc = "do_pr")

C9_Witness ==
    /\ pc = "do_pr"
    /\ HasFile(config)
    /\ Count(log, LintFixCmd) = 1
    /\ Count(log, LintCheckCmd) = 2
    /\ lint = [do_lint |-> FALSE, returncode |-> 0]

(***************************************************************************)
(* Claims about the feature step (under Spec)                              *)
(***************************************************************************)

FeatureStep == {"feature", "proceed"}

\* what the locator answers for the identifier the step has just read
Located == find_file_by_feature(fs, config'.feature, config.pr_type = "Feature Removal")

\* one round of the loop: the identifier is read, the locator is run on
\* it, and Not Found leads to the yes/no prompt
NotFoundAsks ==
    pc = "feature" =>
        /\ config'.feature \in WizFeatures
        /\ Located.kind = "notfound" =>
               /\ pc' = "proceed"
               /\ config'.file = NotFound
        /\ Located.kind = "file" =>
               /\ pc' \notin FeatureStep
               /\ config'.file = Located
        /\ pc' = "crashed" => Located.kind = "error"

\* no asks for another identifier, yes goes on without a file
AnswerDecides ==
    pc = "proceed" =>
        /\ config.file = NotFound
        /\ \/ /\ pc' = "feature"
              /\ config' = config
           \/ /\ pc' \notin FeatureStep
              /\ pc' \notin {"crashed", "done"}
              /\ config'.file = NotFound
              /\ config'.feature = config.feature

\* the step is left with a file or after a yes, and a run without a file
\* neither asks to stage one nor runs a lint command
WithoutFileNoStageNoLint ==
    /\ (pc \notin {"pr_type", "flag_removal_type", "flag"} /\ pc \notin FeatureStep
          /\ config.flag_removal_type # "by_flag" /\ pc # "crashed") =>
           config.file.kind \in {"file", "notfound"}
    /\ config.file.kind # "file" =>
           /\ pc # "stage"
           /\ ~config.auto_stage
           /\ pc \notin {"lint_check", "lint_retry"}
           /\ ~Ran({LintFixCmd, LintCheckCmd})

\* C11: in the feature step a Not Found from the locator never ends the
\* run: the yes/no prompt follows; no asks for an identifier again and
\* runs the locator again, yes goes on with no file; the step is left only
\* with a located file or after a yes; and a run that goes on without a
\* file never asks to stage one and never runs a lint command.
C11_NotFoundIsAsked ==
    /\ []WithoutFileNoStageNoLint
    /\ [][NotFoundAsks /\ AnswerDecides]_vars

C11_Witness ==
    /\ pc = "create_branch"
    /\ config.file = NotFound
    /\ config.feature = <<"api", ".", "Missing">>
    /\ config.pr_type = "Real Values Additions"
    /\ log = <<"git rev-parse --verify", "git ls-remote --exit-code --heads origin",
               "git branch --show-current">>

(***************************************************************************)
(* Claims about the commands of do_pr (under Spec)                         *)
(***************************************************************************)

\* the positions of do_pr at which run_command is called
CommandPositions ==
    { "create_branch", "checkout_branch", "stage_file", "commit", "push", "create_pr",
      "stash", "checkout_original", "delete_branch", "stash_pop", "reset" }

LastCommand == IF log = <<>> THEN "" ELSE log[Len(log)]

\* an uncaught exception of run_command
CommandFailed == pc = "crashed" /\ LastCommand \in Mutating

OnNewBranch == git.local /\ git.current = config.branch

\* the step of a command that exits non-zero: the command was run, the run
\* ends, and the repository is as the earlier commands left it
FailureEndsTheRun ==
    /\ pc # "crashed"
    /\ (pc \in CommandPositions /\ pc' = "crashed") =>
           /\ git' = git
           /\ Len(log') = Len(log) + 1
           /\ log'[Len(log')] \in Mutating
           /\ SubSeq(log', 1, Len(log)) = log

\* a command is run only when every command before it succeeded
ReachedBySuccess ==
    /\ pc = "checkout_branch" => git.local /\ git.current = pr.current_branch
    /\ pc \in {"stage_file", "commit"} => OnNewBranch /\ ~git.committed
    /\ pc = "commit" => git.staged = config.auto_stage
    /\ pc \in {"wait", "push"} => OnNewBranch /\ git.committed /\ ~git.remote
    /\ pc = "create_pr" => OnNewBranch /\ git.committed /\ git.remote /\ ~git.pull_request
    /\ pc \in {"stash", "checkout_original"} => OnNewBranch /\ git.pull_request
    /\ pc = "delete_branch" =>
           git.local /\ git.current = pr.current_branch /\ git.pull_request
    /\ pc \in {"stash_list", "stash_pop", "reset", "complete"} =>
           ~git.local /\ git.current = pr.current_branch /\ git.pull_request

\* what a failed command leaves behind
LeftAsItWas ==
    CommandFailed =>
        /\ LastCommand = "git branch" => git \in InitialGit
        /\ (LastCommand = "git checkout" /\ ~Ran({"git commit"})) =>
               git.local /\ git.current = pr.current_branch /\ ~git.committed
        /\ LastCommand \in {"git add", "git commit"} => OnNewBranch /\ ~git.committed
        /\ LastCommand = "git push --set-upstream origin" =>
               OnNewBranch /\ git.committed /\ ~git.remote /\ ~git.pull_request
        /\ LastCommand = "gh pr create --fill" =>
               OnNewBranch /\ git.committed /\ git.remote /\ ~git.pull_request
        /\ (LastCommand \in {"git stash", "git checkout"} /\ Ran({"git commit"})) =>
               OnNewBranch /\ git.committed /\ git.remote /\ git.pull_request
        /\ LastCommand = "git branch -d" =>
               git.local /\ git.current = pr.current_branch /\ git.remote
        /\ Count(log, "git branch -d") <= 1
        /\ Count(log, "git reset") <= 1

\* C12: when a command issued through run_command exits non-zero the run
\* ends at that command: no later command is run and none undoes an
\* earlier one, so a branch already created, checked out, committed to or
\* pushed stays as it is; a failed push leaves the repository on the new
\* branch with the new commit.
C12_FailedCommandEndsTheRun ==
    /\ [](ReachedBySuccess /\ LeftAsItWas)
    /\ [][FailureEndsTheRun]_vars

C12_Witness ==
    /\ CommandFailed
    /\ LastCommand = "git push --set-upstream origin"
    /\ OnNewBranch
    /\ git.committed
    /\ ~git.remote
    /\ Len(git.message) > 1

(***************************************************************************)
(* Claims about the order of the commands of do_pr (under Spec)            *)
(***************************************************************************)

IsMutating(command) == command \in Mutating

\* the commands of the log that change the repository or the remote
Changes == SelectSeq(log, IsMutating)

\* the order claim C13 gives, with or without the final pop and reset
ClaimedOrder(auto_stage, popped) ==
    <<"git branch", "git checkout">>
    \o (IF auto_stage THEN <<"git add">> ELSE <<>>)
    \o <<"git commit", "git push --set-upstream origin", "gh pr create --fill">>
    \o (IF ~auto_stage THEN <<"git stash">> ELSE <<>>)
    \o <<"git checkout", "git branch -d">>
    \o (IF popped THEN <<"git stash pop", "git reset">> ELSE <<>>)

Completed == pc = "done" /\ out = "Complete!"

\* do_pr found no branch of the name and every command so far succeeded
RunsWell ==
    /\ pc \in CommandPositions \cup {"wait", "stash_list", "complete", "done"}
    /\ ~BranchWasFound

InOrder ==
    RunsWell =>
        /\ \E popped \in BOOLEAN :
             /\ popped => ~config.auto_stage
             /\ StartsWith(ClaimedOrder(config.auto_stage, popped), Changes)
             /\ Completed => Changes = ClaimedOrder(config.auto_stage, popped)
        /\ git.remote => git.committed
        /\ git.pull_request => git.remote /\ git.pr_labels = config.labels
        /\ git.committed => git.message = Split(config.description, "\n")
        /\ Completed =>
               /\ git.current = pr.current_branch
               /\ git.current = <<"main">>
               /\ ~git.local
               /\ git.remote /\ git.pull_request /\ git.committed

\* the pop and the reset are run when the stash list is not empty
PopsWhenStashed ==
    /\ pc = "stash_list" =>
           /\ ~config.auto_stage
           /\ pc' = IF git.stash > 0 THEN "stash_pop" ELSE "complete"
    /\ (pc = "delete_branch" /\ pc' = "complete") => config.auto_stage

\* C13: in a run of do_pr with no branch of the name and every command
\* succeeding, the commands run in this order: create the branch, check
\* it out, stage the file (exactly when auto_stage), commit, push with
\* upstream, create the PR with the labels, stash (exactly when not
\* auto_stage), check out the original branch, delete the new local
\* branch, then pop the stash and reset (only when not auto_stage and a
\* stash exists).  At completion the original branch is checked out and the
\* new branch is gone locally; no push comes before the commit and no PR
\* before the push.
C13_CommandOrder ==
    /\ []InOrder
    /\ [][PopsWhenStashed]_vars

C13_Witness ==
    /\ Completed
    /\ ~config.auto_stage
    /\ HasFile(config)
    /\ Changes = ClaimedOrder(FALSE, TRUE)
    /\ git.stash = 0
    /\ git.pr_labels # <<>>

=============================================================================
